---- MODULE Spec2Model ----
(***************************************************************************)
(* Model of src/server.js: the quota-enforced MP4 -> MP3 conversion        *)
(* pipeline (POST /convert), the quota query (GET /conversionCount), the   *)
(* download endpoint (GET /download/:filename) and the cleanup timers.     *)
(*                                                                         *)
(* Strings are sequences of one-token strings, so that path.extname,       *)
(* path.basename, String.replace and path.join are computed, not assumed.  *)
(* Time is one clock `now` (Date.now()); an ISO timestamp is the clock     *)
(* value and its calendar date is the clock value divided by DayLen.       *)
(* The working directory is taken to be __dirname, so 'converted/x' and    *)
(* path.join(__dirname, 'converted', x) name the same file.                *)
(***************************************************************************)
EXTENDS Integers, Sequences, FiniteSets, TLC

\* ---------------------------------------------------------------- bounds
MaxReq == 2      \* POST /convert requests in one behaviour
MaxTicks == 2    \* clock ticks in one behaviour
DayLen == 2      \* clock ticks per calendar date
MaxStored == 3   \* largest count found in a pre-existing counter file
MaxLen == 3      \* longest download name drawn from the alphabet
Retention == 1   \* clock ticks of the 5-minute retention window

\* ------------------------------------------------------ program constants
Limit == 3       \* count >= 3 refuses the request

VARIABLES now, store, uploads, converted, reqs, timers, crashed, dl, cc

vars == <<now, store, uploads, converted, reqs, timers, crashed, dl, cc>>

\* ---------------------------------------------------------------- strings
MP4 == <<".", "m", "p", "4">>
MP3 == <<".", "m", "p", "3">>
MimeMp4 == "video/mp4"
Mimes == {MimeMp4, "audio/mpeg"}
OrigNames == {<<"a">> \o MP4, <<"b">> \o MP4}

Slice(s, from, to) == [k \in 1..(to - from) |-> s[from + k]]

\* path.extname (posix): the loop runs i from length-1 down to 0 (0-based)
RECURSIVE ExtScan(_, _, _)
ExtScan(p, i, st) ==
  IF i < 0 THEN st
  ELSE IF p[i + 1] = "/"
       THEN IF ~st.matchedSlash
            THEN [st EXCEPT !.startPart = i + 1]
            ELSE ExtScan(p, i - 1, st)
       ELSE LET s1 == IF st.end = -1
                      THEN [st EXCEPT !.matchedSlash = FALSE, !.end = i + 1]
                      ELSE st
                s2 == IF p[i + 1] = "."
                      THEN IF s1.startDot = -1
                           THEN [s1 EXCEPT !.startDot = i]
                           ELSE IF s1.preDotState # 1
                                THEN [s1 EXCEPT !.preDotState = 1]
                                ELSE s1
                      ELSE IF s1.startDot # -1
                           THEN [s1 EXCEPT !.preDotState = -1]
                           ELSE s1
            IN ExtScan(p, i - 1, s2)

ExtName(p) ==
  LET st == ExtScan(p, Len(p) - 1,
                    [startDot |-> -1, startPart |-> 0, end |-> -1,
                     matchedSlash |-> TRUE, preDotState |-> 0])
  IN IF \/ st.startDot = -1
        \/ st.end = -1
        \/ st.preDotState = 0
        \/ /\ st.preDotState = 1
           /\ st.startDot = st.end - 1
           /\ st.startDot = st.startPart + 1
     THEN <<>>
     ELSE Slice(p, st.startDot, st.end)

\* path.basename (posix, no suffix argument)
RECURSIVE BaseScan(_, _, _)
BaseScan(p, i, st) ==
  IF i < 0 THEN st
  ELSE IF p[i + 1] = "/"
       THEN IF ~st.matchedSlash
            THEN [st EXCEPT !.start = i + 1]
            ELSE BaseScan(p, i - 1, st)
       ELSE IF st.end = -1
            THEN BaseScan(p, i - 1, [st EXCEPT !.matchedSlash = FALSE, !.end = i + 1])
            ELSE BaseScan(p, i - 1, st)

Basename(p) ==
  LET st == BaseScan(p, Len(p) - 1, [start |-> 0, end |-> -1, matchedSlash |-> TRUE])
  IN IF st.end = -1 THEN <<>> ELSE Slice(p, st.start, st.end)

\* String.prototype.replace(pattern, replacement) with a string pattern:
\* the first occurrence only; the empty pattern matches at position 0
RECURSIVE IndexOf(_, _, _)
IndexOf(s, pat, k) ==
  IF k + Len(pat) > Len(s) THEN -1
  ELSE IF Slice(s, k, k + Len(pat)) = pat THEN k
  ELSE IndexOf(s, pat, k + 1)

Replace(s, pat, rep) ==
  LET k == IndexOf(s, pat, 0)
  IN IF k = -1 THEN s
     ELSE Slice(s, 0, k) \o rep \o Slice(s, k + Len(pat), Len(s))

\* ------------------------------------------------------------ file system
\* A path is a sequence of segments relative to __dirname; a leading ".."
\* segment stands for a step above __dirname.
DotDot == <<".", ".">>
Dot == <<".">>
ConvertedDir == <<"converted">>
UploadsDir == <<"uploads">>
AppFiles == {<<"server.js">>, <<"conversionCount.json">>}

RECURSIVE Split(_, _)
Split(s, cur) ==
  IF s = <<>> THEN <<cur>>
  ELSE IF Head(s) = "/" THEN <<cur>> \o Split(Tail(s), <<>>)
  ELSE Split(Tail(s), Append(cur, Head(s)))

\* path.normalize on the segments: "" and "." vanish, ".." removes the
\* segment before it (or stays, above __dirname)
RECURSIVE Normalize(_, _)
Normalize(segs, acc) ==
  IF segs = <<>> THEN acc
  ELSE LET h == Head(segs) IN
       IF h = <<>> \/ h = Dot THEN Normalize(Tail(segs), acc)
       ELSE IF h = DotDot
            THEN IF acc # <<>> /\ acc[Len(acc)] # DotDot
                 THEN Normalize(Tail(segs), SubSeq(acc, 1, Len(acc) - 1))
                 ELSE Normalize(Tail(segs), Append(acc, h))
            ELSE Normalize(Tail(segs), Append(acc, h))

\* path.join(__dirname, dir, name)
Join(dir, name) == Normalize(<<dir>> \o Split(name, <<>>), <<>>)

IsDir(path) ==
  \/ path \in {<<>>, <<ConvertedDir>>, <<UploadsDir>>}
  \/ path # <<>> /\ \A k \in 1..Len(path) : path[k] = DotDot

IsFileIn(path, upl, conv) ==
  \/ Len(path) = 1 /\ path[1] \in AppFiles
  \/ Len(path) = 2 /\ path[1] = ConvertedDir /\ path[2] \in conv
  \/ Len(path) = 2 /\ path[1] = UploadsDir /\ path[2] \in upl

IsFile(path) == IsFileIn(path, uploads, converted)

Exists(path) == IsFile(path) \/ IsDir(path)

\* ------------------------------------------------------------- quota store
\* conversionCount.json: ok = FALSE stands for a file that is missing or
\* does not parse; ts is the ISO timestamp lastResetDate
DateOf(ts) == ts \div DayLen

Record(c, ts) == [ok |-> TRUE, count |-> c, ts |-> ts]

Unreadable == [ok |-> FALSE, count |-> 0, ts |-> 0]

getConversionCount == IF store.ok THEN store ELSE Record(0, now)

updateConversionCount(count, resetDate) == Record(count, resetDate)

\* ------------------------------------------------------------------ multer
fileFilterAny(mime) == TRUE

fileFilter(mime) == mime = MimeMp4

uniqueName(orig) == <<ToString(now)>> \o ExtName(orig)

\* ----------------------------------------------------------------- requests
outputName(orig) == Replace(orig, ExtName(orig), MP3)

\* today !== new Date(lastResetDate).toISOString().split('T')[0]
resetNeeded(lastResetDate) == DateOf(now) # DateOf(lastResetDate)

refusedAbove(count) == count > Limit

refused(count) == count >= Limit

chargedNothing(count) == count

charged(count) == count + 1

\* pc: "filtered" (refused by the file filter), "uploaded" (stored by
\* multer, handler not yet run), "rejected" (403), "running" (job started),
\* "writing" (output file created), "succeeded", "failed".
\* count is the handler's local `count`; resp lists the HTTP statuses sent
\* for the request.
Req(orig, mime, pc, input, resp) ==
  [orig |-> orig, mime |-> mime, pc |-> pc, input |-> input,
   count |-> 0, out |-> <<>>, resp |-> resp,
   timer |-> "none", due |-> 0, body |-> 0]

Ids == 1..Len(reqs)

\* cc is the body of the /conversionCount response sent by the latest step
NoResponse == [sent |-> FALSE, totalCount |-> 0, lastResetDate |-> 0]

Idle == [pc |-> "idle", name |-> <<>>, safe |-> <<>>, path |-> <<>>, status |-> 0]

\* The counter file is created at start only when it is absent, so a file
\* left by an earlier run (any count, dated today or earlier, or damaged)
\* is a possible start.
Init ==
  /\ now = DayLen
  /\ store \in {Unreadable} \cup
               {Record(c, ts) : c \in 0..MaxStored, ts \in (DayLen - 1)..DayLen}
  /\ uploads = {}
  /\ converted = {}
  /\ reqs = <<>>
  /\ timers = <<>>
  /\ crashed = FALSE
  /\ dl = Idle
  /\ cc = NoResponse

\* the clock advances (possibly into the next calendar date)
Tick ==
  /\ ~crashed
  /\ now < DayLen + MaxTicks
  /\ now' = now + 1
  /\ cc' = NoResponse
  /\ UNCHANGED <<store, uploads, converted, reqs, timers, crashed, dl>>

\* upload.single('file'): the file filter, then the disk storage; a
\* refusal reaches the default error handler (500)
UploadSingle(orig, mime) ==
  /\ ~crashed
  /\ IF fileFilter(mime)
     THEN /\ uploads' = uploads \cup {uniqueName(orig)}
          /\ reqs' = Append(reqs, Req(orig, mime, "uploaded", uniqueName(orig), <<>>))
     ELSE /\ uploads' = uploads
          /\ reqs' = Append(reqs, Req(orig, mime, "filtered", <<>>, <<500>>))
  /\ cc' = NoResponse
  /\ UNCHANGED <<now, store, converted, timers, crashed, dl>>

\* at most MaxReq requests in one behaviour
Upload(orig, mime) == Len(reqs) < MaxReq /\ UploadSingle(orig, mime)

\* app.post('/convert', ...) after the upload: quota read, date reset,
\* limit check, and the start of the ffmpeg job
Handle(r) ==
  /\ ~crashed
  /\ reqs[r].pc = "uploaded"
  /\ LET rec == getConversionCount
         count == rec.count
         lastResetDate == rec.ts
     IN /\ store' = IF resetNeeded(lastResetDate)
                    THEN updateConversionCount(0, now)
                    ELSE store
        /\ IF refused(count)
           THEN reqs' = [reqs EXCEPT ![r].pc = "rejected", ![r].resp = Append(@, 403),
                                     ![r].count = count]
           ELSE reqs' = [reqs EXCEPT ![r].pc = "running", ![r].count = count,
                                     ![r].out = outputName(reqs[r].orig)]
  /\ cc' = NoResponse
  /\ UNCHANGED <<now, uploads, converted, timers, crashed, dl>>

\* the engine has opened its input and created (or truncated) its output
JobWrite(r) ==
  /\ ~crashed
  /\ reqs[r].pc = "running"
  /\ reqs[r].input \in uploads
  /\ converted' = converted \cup {reqs[r].out}
  /\ reqs' = [reqs EXCEPT ![r].pc = "writing"]
  /\ cc' = NoResponse
  /\ UNCHANGED <<now, store, uploads, timers, crashed, dl>>

\* the end callback charging the count stored now instead of the count the
\* request read
EndIncrementsStored(r) ==
  /\ ~crashed
  /\ reqs[r].pc = "writing"
  /\ store' = updateConversionCount(charged(getConversionCount.count), now)
  /\ timers' = Append(timers, r)
  /\ reqs' = [reqs EXCEPT ![r].pc = "succeeded", ![r].resp = Append(@, 200),
                          ![r].timer = "pending", ![r].due = now + Retention,
                          ![r].body = charged(getConversionCount.count)]
  /\ cc' = NoResponse
  /\ UNCHANGED <<now, uploads, converted, crashed, dl>>

\* .on('end', ...): charge the quota, schedule the cleanup, respond 200
End(r) ==
  /\ ~crashed
  /\ reqs[r].pc = "writing"
  /\ store' = updateConversionCount(charged(reqs[r].count), now)
  /\ timers' = Append(timers, r)
  /\ reqs' = [reqs EXCEPT ![r].pc = "succeeded", ![r].resp = Append(@, 200),
                          ![r].timer = "pending", ![r].due = now + Retention,
                          ![r].body = charged(reqs[r].count)]
  /\ cc' = NoResponse
  /\ UNCHANGED <<now, uploads, converted, crashed, dl>>

\* the error callback without its unlink
ErrorKeepsInput(r) ==
  /\ ~crashed
  /\ reqs[r].pc \in {"running", "writing"}
  /\ reqs' = [reqs EXCEPT ![r].pc = "failed", ![r].resp = Append(@, 500)]
  /\ cc' = NoResponse
  /\ UNCHANGED <<now, store, uploads, converted, timers, crashed, dl>>

\* .on('error', ...): fs.unlinkSync(inputPath) throws when the file is gone,
\* nothing catches it, and the response is never sent
Error(r) ==
  /\ ~crashed
  /\ reqs[r].pc \in {"running", "writing"}
  /\ IF reqs[r].input \in uploads
     THEN /\ uploads' = uploads \ {reqs[r].input}
          /\ reqs' = [reqs EXCEPT ![r].pc = "failed", ![r].resp = Append(@, 500)]
          /\ crashed' = FALSE
     ELSE /\ uploads' = uploads
          /\ reqs' = [reqs EXCEPT ![r].pc = "failed"]
          /\ crashed' = TRUE
  /\ cc' = NoResponse
  /\ UNCHANGED <<now, store, converted, timers, dl>>

\* a cleanup timer that holds back while a download has passed its
\* existence check and has not sent yet
CleanupWaits ==
  /\ ~crashed
  /\ timers # <<>>
  /\ dl.pc # "checked"
  /\ LET r == Head(timers) IN
     /\ now >= reqs[r].due
     /\ IF reqs[r].input \in uploads
        THEN /\ uploads' = uploads \ {reqs[r].input}
             /\ converted' = converted \ {reqs[r].out}
        ELSE UNCHANGED <<uploads, converted>>
     /\ reqs' = [reqs EXCEPT ![r].timer = "fired"]
  /\ timers' = Tail(timers)
  /\ cc' = NoResponse
  /\ UNCHANGED <<now, store, crashed, dl>>

\* the setTimeout callback of the oldest timer that is due: the second
\* unlink is skipped when the first one throws; the catch swallows it
Cleanup ==
  /\ ~crashed
  /\ timers # <<>>
  /\ LET r == Head(timers) IN
     /\ now >= reqs[r].due
     /\ IF reqs[r].input \in uploads
        THEN /\ uploads' = uploads \ {reqs[r].input}
             /\ converted' = converted \ {reqs[r].out}
        ELSE UNCHANGED <<uploads, converted>>
     /\ reqs' = [reqs EXCEPT ![r].timer = "fired"]
  /\ timers' = Tail(timers)
  /\ cc' = NoResponse
  /\ UNCHANGED <<now, store, crashed, dl>>

\* a status query that resets a record of an earlier date, as /convert does
ConversionCountResets ==
  /\ ~crashed
  /\ LET rec == getConversionCount IN
     /\ cc' = [sent |-> TRUE, totalCount |-> rec.count, lastResetDate |-> rec.ts]
     /\ store' = IF resetNeeded(rec.ts) THEN updateConversionCount(0, now) ELSE store
  /\ UNCHANGED <<now, uploads, converted, reqs, timers, crashed, dl>>

\* app.get('/conversionCount', ...)
ConversionCount ==
  /\ ~crashed
  /\ LET rec == getConversionCount IN
     cc' = [sent |-> TRUE, totalCount |-> rec.count, lastResetDate |-> rec.ts]
  /\ UNCHANGED <<now, store, uploads, converted, reqs, timers, crashed, dl>>

Next ==
  \/ Tick
  \/ \E o \in OrigNames, m \in Mimes : Upload(o, m)
  \/ \E r \in Ids : Handle(r)
  \/ \E r \in Ids : JobWrite(r)
  \/ \E r \in Ids : End(r)
  \/ \E r \in Ids : Error(r)
  \/ Cleanup

\* The conversion pipeline. The status query is left to SpecQuery: it
\* changes nothing but its own response.
Spec == Init /\ [][Next]_vars

NextQuery ==
  \/ Next
  \/ ConversionCount

SpecQuery == Init /\ [][NextQuery]_vars

\* Requests of one calendar date: the counter file is dated today at start
\* and the clock stays within the date.
InitToday == Init /\ store.ok /\ DateOf(store.ts) = DateOf(now)

TickSameDate == Tick /\ DateOf(now') = DateOf(now)

NextOneDate ==
  \/ TickSameDate
  \/ \E o \in OrigNames, m \in Mimes : Upload(o, m)
  \/ \E r \in Ids : Handle(r)
  \/ \E r \in Ids : JobWrite(r)
  \/ \E r \in Ids : End(r)
  \/ \E r \in Ids : Error(r)
  \/ Cleanup

SpecOneDate == InitToday /\ [][NextOneDate]_vars

\* ---------------------------------------------------------------- download
\* app.get('/download/:filename', ...) up to the fs.access callback
safeName(filename) == Basename(filename)

filePath(filename) == Join(ConvertedDir, safeName(filename))

DownloadCheck(filename) ==
  /\ ~crashed
  /\ dl.pc # "checked"
  /\ dl' = [pc |-> IF Exists(filePath(filename)) THEN "checked" ELSE "done",
            name |-> filename, safe |-> safeName(filename),
            path |-> filePath(filename),
            status |-> IF Exists(filePath(filename)) THEN 0 ELSE 404]
  /\ cc' = NoResponse
  /\ UNCHANGED <<now, store, uploads, converted, reqs, timers, crashed>>

\* res.sendFile: a directory, a dot file or a vanished file ends in the
\* error callback (500); a regular file is streamed (200)
Hidden(path) == \E k \in 1..Len(path) : path[k] # <<>> /\ path[k][1] = "."

sendFile(path) == IF IsFile(path) /\ ~Hidden(path) THEN 200 ELSE 500

DownloadSend ==
  /\ ~crashed
  /\ dl.pc = "checked"
  /\ dl' = [dl EXCEPT !.pc = "done", !.status = sendFile(dl.path)]
  /\ cc' = NoResponse
  /\ UNCHANGED <<now, store, uploads, converted, reqs, timers, crashed>>

\* Download requests alone, against a converted directory that holds files
\* left by earlier conversions (the directory is kept when it exists at
\* start): a.mp3 from a.mp4, and the dot file .mp3.a from .a
Alphabet == {"a", ".", "/"}

Names(n) == UNION {[1..k -> Alphabet] : k \in 1..n}

LeftFiles == {outputName(<<"a">> \o MP4), outputName(<<".", "a">>)}

DownloadNames ==
  Names(MaxLen) \cup
  {d \o f : d \in {<<>>, <<"/">>, <<".", ".", "/">>, <<"a", "/">>}, f \in LeftFiles}

InitDownload ==
  /\ now = DayLen
  /\ store = Record(0, DayLen)
  /\ uploads = {}
  /\ converted \in SUBSET LeftFiles
  /\ reqs = <<>>
  /\ timers = <<>>
  /\ crashed = FALSE
  /\ dl = Idle
  /\ cc = NoResponse

NextDownload ==
  \/ \E f \in DownloadNames : DownloadCheck(f)
  \/ DownloadSend

SpecDownload == InitDownload /\ [][NextDownload]_vars

\* ------------------------------------------------------------------ steps
\* how a step is recognised from the states before and after it
HandleStep(r) == reqs[r].pc = "uploaded" /\ reqs'[r].pc # "uploaded"

EndStep(r) == reqs[r].pc # "succeeded" /\ reqs'[r].pc = "succeeded"

ErrorStep(r) == reqs[r].pc # "failed" /\ reqs'[r].pc = "failed"

UploadStep == Len(reqs') = Len(reqs) + 1

SameDate == store.ok /\ DateOf(store.ts) = DateOf(now)

OtherDate == store.ok /\ DateOf(store.ts) # DateOf(now)

\* ----------------------------------------------------------------- claims
\* C1: with the stored record dated today, the handler admits the request
\* (starts a job) when the stored count is 0, 1 or 2, and refuses it with
\* 403 when the count is 3 or more; a refused request starts no job, then
\* or later, and its handling writes nothing to the converted directory.
C1_Admission ==
  [][\A r \in Ids :
       /\ (HandleStep(r) /\ SameDate /\ store.count < 3) => reqs'[r].pc = "running"
       /\ (HandleStep(r) /\ SameDate /\ store.count >= 3) =>
            /\ reqs'[r].pc = "rejected"
            /\ reqs'[r].resp = <<403>>
            /\ converted' = converted
       /\ reqs[r].pc = "rejected" => reqs'[r].pc = "rejected"]_vars

C1_Witness ==
  \E r1, r2 \in Ids :
    /\ reqs[r1].pc \in {"running", "writing", "succeeded"}
    /\ reqs[r1].count < 3
    /\ reqs[r2].pc = "rejected" /\ reqs[r2].resp = <<403>>
    /\ reqs[r2].count >= 3
    /\ SameDate /\ store.count = reqs[r2].count
    /\ reqs[r2].out \notin converted

\* C2 (as claimed): a request handled on a date other than the stored
\* lastResetDate is decided against count 0 and so is admitted, whatever
\* the stored count was.
C2_ResetBeforeAdmission ==
  [][\A r \in Ids :
       (HandleStep(r) /\ OtherDate) =>
         /\ store'.count = 0
         /\ reqs'[r].pc = "running"]_vars

\* C3 (as claimed): with all requests on one calendar date, a success step
\* leaves the stored count exactly 1 above the count stored just before it
\* (and so never lowers it).
C3_ExactlyOneMore ==
  [][\A r \in Ids : EndStep(r) => store'.count = store.count + 1]_vars

\* C3 (amended): with all requests on one calendar date, a success step
\* stores the count its request read on entry plus 1; that is 1 above the
\* count stored just before the step whenever the stored count still is the
\* one the request read.
C3_OneMoreThanRead ==
  [][\A r \in Ids :
       EndStep(r) =>
         /\ store'.ok
         /\ store'.count = reqs[r].count + 1
         /\ (store.ok /\ store.count = reqs[r].count) =>
              store'.count = store.count + 1]_vars

C3_Witness ==
  \E r1, r2 \in Ids :
    /\ r1 # r2
    /\ reqs[r1].pc = "succeeded" /\ reqs[r2].pc = "succeeded"
    /\ reqs[r1].count = reqs[r2].count
    /\ store.count = reqs[r1].count + 1

\* C4: the failure step leaves the quota record unchanged and schedules no
\* timer for the job, and when it sends the 500 response the input file is
\* absent from the upload directory.
C4_Failure ==
  [][\A r \in Ids :
       ErrorStep(r) =>
         /\ store' = store
         /\ timers' = timers
         /\ reqs'[r].timer = "none"
         /\ reqs'[r].resp # reqs[r].resp =>
              /\ reqs'[r].resp = <<500>>
              /\ reqs[r].input \notin uploads']_vars

C4_Witness ==
  \E r \in Ids :
    /\ reqs[r].pc = "failed"
    /\ reqs[r].resp = <<500>>
    /\ reqs[r].input \notin uploads
    /\ reqs[r].timer = "none"
    /\ store.ok /\ store.count > 0

\* C5 (as claimed): a successful conversion's input and output files are
\* on disk from its success until its retention window elapses, and both
\* are absent when its timer has fired.
CleanupStep(r) == reqs[r].timer = "pending" /\ reqs'[r].timer = "fired"

C5_Retention ==
  [][\A r \in Ids :
       /\ (reqs'[r].timer = "pending" /\ now' < reqs'[r].due) =>
            /\ reqs[r].input \in uploads'
            /\ reqs'[r].out \in converted'
       /\ CleanupStep(r) =>
            /\ reqs[r].input \notin uploads'
            /\ reqs[r].out \notin converted']_vars

\* the last path component of a name: its last non-empty segment
LastComponent(name) ==
  LET segs == SelectSeq(Split(name, <<>>), LAMBDA g : g # <<>>)
  IN IF segs = <<>> THEN <<>> ELSE segs[Len(segs)]

\* C6 (as claimed): for every name, the path that is checked and streamed
\* is the direct child of the converted directory named by the name's last
\* component; only a file of that directory is streamed, and the request
\* ends in 404 when that child does not exist.
C6_DownloadStaysInside ==
  dl.pc # "idle" =>
    /\ dl.path = <<ConvertedDir, LastComponent(dl.name)>>
    /\ dl.status = 200 => dl.path[2] \in converted
    /\ LastComponent(dl.name) \notin converted => dl.status = 404

\* C7: an upload that declares a mime type other than video/mp4 is refused
\* by the file filter: nothing is written to the upload directory, the
\* quota record, the converted directory and the timers are unchanged, and
\* the request never reaches the handler or starts a job.
C7_MimeFilter ==
  [][/\ (UploadStep /\ reqs'[Len(reqs')].mime # MimeMp4) =>
          /\ reqs'[Len(reqs')].pc = "filtered"
          /\ uploads' = uploads
          /\ store' = store
          /\ converted' = converted
          /\ timers' = timers
     /\ \A r \in Ids :
          reqs[r].mime # MimeMp4 => reqs[r].pc = "filtered" /\ reqs'[r] = reqs[r]]_vars

C7_Witness ==
  \E r \in Ids :
    /\ reqs[r].mime # MimeMp4
    /\ reqs[r].pc = "filtered"
    /\ reqs[r].input = <<>>
    /\ uploads = {}

\* C8: a /conversionCount request changes nothing (clock, quota record,
\* both directories, requests, timers) and answers with the count and the
\* reset date of the stored record, or with 0 and the present moment when
\* the record cannot be read.
C8_PureRead ==
  [][cc'.sent =>
       /\ UNCHANGED <<now, store, uploads, converted, reqs, timers, crashed, dl>>
       /\ cc'.totalCount = IF store.ok THEN store.count ELSE 0
       /\ cc'.lastResetDate = IF store.ok THEN store.ts ELSE now]_vars

C8_Witness ==
  /\ cc.sent
  /\ OtherDate
  /\ store.count > 0
  /\ cc.totalCount = store.count /\ cc.lastResetDate = store.ts
  /\ timers # <<>>

\* C9 (as claimed): a request moves uploaded -> rejected | running,
\* running -> succeeded | failed, and never leaves rejected, succeeded or
\* failed; its response is sent exactly once, with the terminal transition
\* and not before; the success step schedules exactly one timer and the
\* failure step deletes the input file.
Terminal == {"filtered", "rejected", "succeeded", "failed"}

Moves ==
  {<<"uploaded", "rejected">>, <<"uploaded", "running">>,
   <<"running", "writing">>, <<"writing", "succeeded">>,
   <<"running", "failed">>, <<"writing", "failed">>}

C9_Lifecycle ==
  [][\A r \in Ids :
       /\ reqs'[r].pc # reqs[r].pc => <<reqs[r].pc, reqs'[r].pc>> \in Moves
       /\ reqs[r].pc \in Terminal => reqs'[r].resp = reqs[r].resp
       /\ reqs'[r].pc \notin Terminal => reqs'[r].resp = <<>>
       /\ reqs'[r].pc \in Terminal => Len(reqs'[r].resp) = 1
       /\ EndStep(r) => timers' = Append(timers, r) /\ reqs'[r].resp = <<200>>
       /\ ErrorStep(r) =>
            /\ reqs[r].input \in uploads /\ reqs[r].input \notin uploads'
            /\ reqs'[r].resp = <<500>>
            /\ timers' = timers]_vars

\* C10 (as claimed): no step throws out of its handler or callback, so the
\* process never crashes.
C10_NeverCrashes == ~crashed

\* C11 (as claimed): every file a request has stored in the upload
\* directory is deleted in the end, whatever the request's outcome: once
\* every request has been answered and every timer has fired, with the
\* process still running, the upload directory is empty.
Settled ==
  /\ ~crashed
  /\ timers = <<>>
  /\ \A r \in Ids : reqs[r].pc \in Terminal

C11_UploadsReclaimed == Settled => uploads = {}

\* One request that finds a record of an earlier calendar date: the first
\* request of a new date, with nothing else in flight.
InitNewDate == Init /\ store.ok /\ DateOf(store.ts) # DateOf(now)

NextNewDate ==
  \/ Tick
  \/ \E o \in OrigNames, m \in Mimes : reqs = <<>> /\ Upload(o, m)
  \/ \E r \in Ids : Handle(r)
  \/ \E r \in Ids : JobWrite(r)
  \/ \E r \in Ids : End(r)
  \/ \E r \in Ids : Error(r)
  \/ Cleanup

SpecNewDate == InitNewDate /\ [][NextNewDate]_vars

\* C12 (as claimed): when the first request of a new calendar date succeeds
\* with no other request in flight, the count it writes to the store and
\* the count in its response are both 1, whatever count was stored before.
C12_FirstOfDateCountsOne ==
  [][\A r \in Ids :
       EndStep(r) => store'.count = 1 /\ reqs'[r].body = 1]_vars

\* C13: on one calendar date, a success step never stores more than 3, and
\* a request that read count 2 and succeeds after another request that also
\* read 2 has already succeeded writes 3 again: both were admitted on the
\* same reading and the second success is not counted.
C13_RaceWritesThree ==
  [][\A r \in Ids :
       EndStep(r) =>
         /\ store'.count <= 3
         /\ \A q \in Ids \ {r} :
              (reqs[q].pc = "succeeded" /\ reqs[q].count = 2 /\ reqs[r].count = 2)
                => (store.count = 3 /\ store'.count = 3 /\ reqs'[r].body = 3)]_vars

\* two requests read 2, both succeeded, each answered with count 3, and the
\* store holds 3
C13_Witness ==
  \E r1, r2 \in Ids :
    /\ r1 # r2
    /\ reqs[r1].pc = "succeeded" /\ reqs[r2].pc = "succeeded"
    /\ reqs[r1].count = 2 /\ reqs[r2].count = 2
    /\ reqs[r1].body = 3 /\ reqs[r2].body = 3
    /\ SameDate /\ store.count = 3

\* C14 (as claimed): two distinct successful conversions whose cleanup
\* timers are both pending share neither the input path nor the output
\* path.
C14_TimersDisjoint ==
  \A r1, r2 \in Ids :
    (r1 # r2 /\ reqs[r1].timer = "pending" /\ reqs[r2].timer = "pending") =>
      /\ reqs[r1].input # reqs[r2].input
      /\ reqs[r1].out # reqs[r2].out

\* C15 (as claimed): when a cleanup timer fires, whichever of its two files
\* are present or already absent, the failure of a deletion stays inside
\* the callback (the process keeps running) and afterwards neither the
\* input path nor the output path exists.
C15_CleanupRemovesBoth ==
  [][\A r \in Ids :
       CleanupStep(r) =>
         /\ ~crashed'
         /\ reqs[r].input \notin uploads'
         /\ reqs[r].out \notin converted']_vars

\* ------------------------------------------------------------ output names
\* `converted/${outputName}`, resolved against the working directory
outputPath(name) == Join(ConvertedDir, name)

\* req.file.originalname as the handler may receive it: the name is the
\* client's and the handler does not restrict it
ClientNames ==
  Names(MaxLen) \cup OrigNames \cup
  {<<"a">>, <<"a">> \o MP4 \o MP4, <<".", ".", "/", "a">> \o MP4}

\* one request with any client name, up to the start of its job
NextNames ==
  \/ Tick
  \/ \E o \in ClientNames : reqs = <<>> /\ Upload(o, MimeMp4)
  \/ \E r \in Ids : Handle(r)

SpecNames == Init /\ [][NextNames]_vars

Started(r) == reqs[r].pc = "running"

HasSlash(name) == \E k \in 1..Len(name) : name[k] = "/"

\* position of the last dot of a name, 0 when it has none
LastDot(name) ==
  LET dots == {k \in 1..Len(name) : name[k] = "."}
  IN IF dots = {} THEN 0 ELSE CHOOSE k \in dots : \A j \in dots : j <= k

\* C16 (as claimed): the output name is the original name with the suffix
\* that starts at its last dot replaced by .mp3 and the part before it
\* unchanged; a name without a dot is kept, with or without .mp3 added.
C16_FinalExtensionReplaced ==
  \A r \in Ids :
    (Started(r) /\ ~HasSlash(reqs[r].orig)) =>
      LET orig == reqs[r].orig
          d == LastDot(orig)
      IN IF d = 0
         THEN reqs[r].out \in {orig, orig \o MP3}
         ELSE reqs[r].out = SubSeq(orig, 1, d - 1) \o MP3

MaxFresh == Limit + 1

Live == {r \in Ids : reqs[r].pc \notin Terminal}

InitFresh == Init /\ store = Record(0, now)

NextFresh ==
  \/ Tick
  \/ /\ Len(reqs) < MaxFresh
     /\ Cardinality(Live) < MaxReq
     /\ UploadSingle(<<"a">> \o MP4, MimeMp4)
  \/ \E r \in Ids : Handle(r)
  \/ \E r \in Ids : JobWrite(r)
  \/ \E r \in Ids : End(r)
  \/ \E r \in Ids : Error(r)
  \/ Cleanup
  \/ ConversionCount

SpecFresh == InitFresh /\ [][NextFresh]_vars

\* C18: from the record created at process start, the stored record stays
\* readable and its count stays an integer from 0 to 3, through every
\* interleaving of requests, engine outcomes, date changes, status queries
\* and timer firings.
C18_CountWithinLimit == store.ok /\ store.count \in 0..3

\* the count has reached 3 by three successes, and a fourth request was
\* refused
C18_Witness ==
  /\ store.count = 3
  /\ Cardinality({r \in Ids : reqs[r].pc = "succeeded"}) >= 3
  /\ \E r \in Ids : reqs[r].pc = "rejected" /\ reqs[r].count = 3

\* --------------------------------------------------- download and cleanup
\* Conversions of a.mp4 and downloads of their output a.mp3, interleaved
NextRace ==
  \/ Tick
  \/ Upload(<<"a">> \o MP4, MimeMp4)
  \/ \E r \in Ids : Handle(r)
  \/ \E r \in Ids : JobWrite(r)
  \/ \E r \in Ids : End(r)
  \/ \E r \in Ids : Error(r)
  \/ Cleanup
  \/ DownloadCheck(outputName(<<"a">> \o MP4))
  \/ DownloadSend

SpecRace == InitFresh /\ [][NextRace]_vars

\* C19: the cleanup timer does not wait for a download: whenever the
\* oldest timer is due, its callback can run, also while a download of its
\* output file has passed the existence check and has not sent yet.
C19_CleanupNeverWaits ==
  \A r \in Ids :
    ( /\ ~crashed
      /\ timers # <<>> /\ Head(timers) = r /\ now >= reqs[r].due
      /\ dl.pc = "checked" /\ dl.path = outputPath(reqs[r].out) )
    => ENABLED Cleanup

\* a download that passed its check on a converted file ended in 500
\* because the file's timer had deleted it before the send
C19_Witness ==
  /\ dl.pc = "done" /\ dl.status = 500
  /\ ~Hidden(dl.path) /\ ~IsFile(dl.path)
  /\ \E r \in Ids : reqs[r].timer = "fired" /\ dl.path = outputPath(reqs[r].out)

====
